---- MODULE Spec2Model ----
(***************************************************************************)
(* Model of ocr/lib.py: convert(), ocr_file(), the page counters, the      *)
(* page selector, the per-page rasterize/OCR loop, the output validation   *)
(* and the temp-file handling.                                             *)
(*                                                                         *)
(* Text is a sequence of characters; a character is one of the strings of  *)
(* Chars.  A file is an entry of fs: id 0 is the file at the caller's      *)
(* output path, ids 1, 2, ... are the files made by tempfile.mkstemp in    *)
(* creation order.  External tools (mdls, pdfinfo, djvused, gs, ddjvu,     *)
(* tesseract) are nondeterministic: they choose an exit status and an      *)
(* output.  os.remove may fail with OSError.                               *)
(***************************************************************************)
EXTENDS Integers, Sequences, FiniteSets, TLC

VARIABLES
    input_file,        \* argument of convert: the input path
    input_content,     \* content of the input file (read only for text/plain)
    output_file,       \* argument of convert: the output path, or None
    ocr_command,       \* argument of convert: name of the OCR function
    ocr_pages,         \* argument of convert: the page spec, or None
    fs,                \* file id -> content, for the files that exist
    ntmp,              \* number of mkstemp calls made so far
    pc,                \* position in convert / ocr_file
    mime_type,         \* convert: mime_type
    return_txt,        \* convert: return_txt
    dest,              \* convert: output_file after resolution (a file id)
    ret,               \* what convert returned (or raised)
    result,            \* ocr_file: result of the last external command
    num_pages,         \* ocr_file: num_pages
    pages_to_process,  \* ocr_file: pages_to_process
    idx,               \* ocr_file: i of enumerate(pages_to_process, start=1)
    tmp_file,          \* ocr_file: tmp_file (a file id, 0 when unset)
    tmp_file_txt,      \* ocr_file: tmp_file_txt (a file id, 0 when unset)
    text,              \* ocr_file: the accumulator
    ocr_ret,           \* value returned by ocr_file (-1 before it returns)
    calls,             \* external commands run so far, in order
    removals,          \* remove_file calls so far, in order
    returned           \* what the earlier calls of convert returned, in order

vars == <<input_file, input_content, output_file, ocr_command, ocr_pages,
          fs, ntmp, pc, mime_type, return_txt, dest, ret, result,
          num_pages, pages_to_process, idx, tmp_file, tmp_file_txt, text,
          ocr_ret, calls, removals, returned>>

inputs == <<input_file, input_content, output_file, ocr_command, ocr_pages>>

loopvars == <<pages_to_process, idx, tmp_file, tmp_file_txt, text>>

----------------------------------------------------------------------------
(* Bounds and input sets *)

MaxPages == 2

None == <<"None">>

AlnumChars == {"a", "b"}

Chars == AlnumChars \cup {"_", "CR", "LF"}

Digits == {"0", "1", "2", "3", "4", "5", "6", "7", "8", "9"}

\* Input paths, one per document kind the classifier distinguishes.
InputFiles == {"in.txt", "in.pdf", "in.djvu", "in.png", "in.doc", "in"}

\* Contents of a plain-text input.
PlainTexts == {<<>>, <<"a", "CR", "LF", "b">>, <<"_", "CR">>, <<"a", "LF">>}

\* Output paths handed to convert.
OutputArgs == {None,
               <<"o", ".", "t", "x", "t">>,
               <<"o", ".", "d", "o", "c">>,
               <<".", "t", "x", "t">>,
               <<"o">>}

\* Content of a file that already exists at the output path.
OldContents == {<<"a", "a">>}

\* Names handed as ocr_command.
OcrCommands == {"tesseract_wrapper", "no_such_function", "remove_file"}

\* Page specs handed as ocr_pages.
PageSpecs == {None,
              <<>>,
              <<"2">>,
              <<"2", ",", "1">>,
              <<"1", ",", "1">>,
              <<"2", "-", "1">>,
              <<"1", "-", "2">>,
              <<"1", "-">>}

\* What the OCR tool may write to its output file.
OcrOutputs == {<<"_">>, <<"a", "CR", "LF">>}

\* What the OCR tool may leave in its output file when it fails.
OcrFailOutputs == {<<"a">>}

\* Exit statuses of the page-count tools.
ExitCodes == {0, 1, 2}

\* Exit statuses of the rasterizers and the OCR tool.
StepExitCodes == {0, 1}

----------------------------------------------------------------------------
(* Pure helpers *)

\* str.isalnum on one character
isalnum(ch) == ch \in AlnumChars

\* f.read() of a file opened in text mode: universal newlines, "\r\n" and
\* "\r" come back as "\n".
RECURSIVE ReadText(_)
ReadText(s) ==
    IF s = <<>> THEN <<>>
    ELSE IF Head(s) = "CR"
         THEN IF Len(s) >= 2 /\ s[2] = "LF"
              THEN <<"LF">> \o ReadText(SubSeq(s, 3, Len(s)))
              ELSE <<"LF">> \o ReadText(Tail(s))
         ELSE <<Head(s)>> \o ReadText(Tail(s))

\* f.write(text) to a file opened with 'w' (os.linesep is "\n")
WriteText(s) == s

\* mimetypes.guess_type(file_path)[0]
get_mime_type(file_path) ==
    CASE file_path = "in.txt"  -> "text/plain"
      [] file_path = "in.pdf"  -> "application/pdf"
      [] file_path = "in.djvu" -> "image/vnd.djvu"
      [] file_path = "in.png"  -> "image/png"
      [] file_path = "in.doc"  -> "application/msword"
      [] OTHER                 -> "None"

\* mime_type.startswith(prefix), for the prefixes ocr_file tests
startswith(mt, prefix) ==
    CASE prefix = "application/pdf" -> mt = "application/pdf"
      [] prefix = "image/vnd.djvu"  -> mt = "image/vnd.djvu"
      [] prefix = "image/"          -> mt \in {"image/vnd.djvu", "image/png"}
      [] OTHER                      -> FALSE

\* pathlib.Path(p).suffix: from the last dot of the name, unless that dot
\* is the first or the last character of the name
LastDot(p) ==
    IF \E k \in 1..Len(p) : p[k] = "."
    THEN CHOOSE k \in 1..Len(p) :
             p[k] = "." /\ \A j \in (k + 1)..Len(p) : p[j] # "."
    ELSE 0

Suffix(p) ==
    IF LastDot(p) <= 1 \/ LastDot(p) = Len(p)
    THEN <<>>
    ELSE SubSeq(p, LastDot(p), Len(p))

TxtSuffix == <<".", "t", "x", "t">>

\* globals(): the module-level names, of those handed as ocr_command
Globals == {"tesseract_wrapper", "remove_file"}

\* the globals that can be called with (input_file, output_file) and return
\* a Result; remove_file takes one argument, so calling it with two raises
\* TypeError
OcrFunctions == {"tesseract_wrapper"}

\* isalnum_in_file, on the content of the file
isalnum_in_file(content) ==
    \E k \in 1..Len(ReadText(content)) : isalnum(ReadText(content)[k])

----------------------------------------------------------------------------
(* Page selector (ocr_file, "Pre-compute the list of pages to process") *)

\* s.split(sep)
RECURSIVE Split(_, _)
Split(s, sep) ==
    IF \E k \in 1..Len(s) : s[k] = sep
    THEN LET k == CHOOSE j \in 1..Len(s) :
                      s[j] = sep /\ \A m \in 1..(j - 1) : s[m] # sep
         IN  <<SubSeq(s, 1, k - 1)>> \o Split(SubSeq(s, k + 1, Len(s)), sep)
    ELSE <<s>>

DigitSeq == <<"0", "1", "2", "3", "4", "5", "6", "7", "8", "9">>

DigitVal(c) == (CHOOSE k \in 1..Len(DigitSeq) : DigitSeq[k] = c) - 1

\* int(t) does not raise ValueError
IsInt(t) == Len(t) > 0 /\ \A k \in 1..Len(t) : t[k] \in Digits

\* int(t)
RECURSIVE int(_)
int(t) ==
    IF Len(t) = 1 THEN DigitVal(t[1])
    ELSE 10 * int(SubSeq(t, 1, Len(t) - 1)) + DigitVal(t[Len(t)])

\* one token of the page spec is processed without an exception
TokenOk(p) ==
    IF \E k \in 1..Len(p) : p[k] = "-"
    THEN /\ Len(Split(p, "-")) = 2
         /\ IsInt(Split(p, "-")[1])
         /\ IsInt(Split(p, "-")[2])
    ELSE IsInt(p)

\* fault: a range is always put in ascending order
RangePages_Ascending(p1, p2) ==
    IF p1 > p2
    THEN [k \in 1..(p1 - p2 + 1) |-> p2 + k - 1]
    ELSE [k \in 1..(p2 - p1 + 1) |-> p1 + k - 1]

\* sorted(range(p2, p1 + 1), reverse=True) or sorted(range(p1, p2 + 1))
RangePages(p1, p2) ==
    IF p1 > p2
    THEN [k \in 1..(p1 - p2 + 1) |-> p1 - k + 1]
    ELSE [k \in 1..(p2 - p1 + 1) |-> p1 + k - 1]

\* the pages one token contributes
TokenPages(p) ==
    IF \E k \in 1..Len(p) : p[k] = "-"
    THEN RangePages(int(Split(p, "-")[1]), int(Split(p, "-")[2]))
    ELSE <<int(p)>>

RECURSIVE ExtendAll(_)
ExtendAll(tokens) ==
    IF tokens = <<>> THEN <<>>
    ELSE TokenPages(Head(tokens)) \o ExtendAll(Tail(tokens))

\* the loop over ocr_pages.split(',') raises ValueError
SpecRaises(spec) ==
    \E k \in 1..Len(Split(spec, ",")) : ~TokenOk(Split(spec, ",")[k])

\* fault: the selected pages are sorted and duplicates are dropped
PagesFromSpec_SortedUnique(spec) ==
    LET pages == ExtendAll(Split(spec, ","))
        S == {pages[k] : k \in 1..Len(pages)}
    IN  [k \in 1..Cardinality(S) |->
            CHOOSE x \in S : Cardinality({y \in S : y < x}) = k - 1]

\* pages_to_process for a non-empty page spec
PagesFromSpec(spec) == ExtendAll(Split(spec, ","))

\* fault: range(num_pages) instead of range(1, num_pages + 1)
AllPages_FromZero(n) == [k \in 1..n |-> k - 1]

\* pages_to_process when ocr_pages is None or empty
AllPages(n) == [k \in 1..n |-> k]

----------------------------------------------------------------------------
(* Values *)

NoRet == [kind |-> "none", status |-> -1, text |-> <<>>, exc |-> ""]

Status(n) == [kind |-> "status", status |-> n, text |-> <<>>, exc |-> ""]

Text(t) == [kind |-> "text", status |-> -1, text |-> t, exc |-> ""]

Raise(e) == [kind |-> "raise", status |-> -1, text |-> <<>>, exc |-> e]

\* Result(): stdout is an int (isint, n) or some other text
NoResult == [returncode |-> -1, isint |-> FALSE, n |-> 0]

IntResult(rc, n) == [returncode |-> rc, isint |-> TRUE, n |-> n]

StrResult(rc) == [returncode |-> rc, isint |-> FALSE, n |-> 0]

\* one external command: the tool, the loop index i and the page it was run
\* for (0 outside the loop), its exit status, and its output (what a page
\* counter printed, what an OCR function wrote to its output file), and
\* the files it was given, in argument order
Call(tool, occ, pg, rc, out, args) ==
    [tool |-> tool, occ |-> occ, page |-> pg, rc |-> rc, out |-> out,
     args |-> args]

\* the id of the input file (input_file, file_path) among the file ids
InputFile == -1

\* tempfile.mkstemp: a new empty file
mkstemp(f, id) == f @@ (id :> <<>>)

\* the file system after os.remove(id) succeeded
Unlink(f, id) == [k \in (DOMAIN f) \ {id} |-> f[k]]

\* fault: the file is opened with 'a', the old content is kept
WriteFile_Append(f, id, content) ==
    [k \in (DOMAIN f) \cup {id} |->
        IF k = id
        THEN (IF id \in DOMAIN f THEN f[id] ELSE <<>>) \o content
        ELSE f[k]]

\* open(id, 'w') and write: creates or truncates the file
WriteFile(f, id, content) ==
    [k \in (DOMAIN f) \cup {id} |-> IF k = id THEN content ELSE f[k]]

\* page_convert_cmd
page_convert_cmd ==
    IF startswith(mime_type, "application/pdf") THEN "convert_pdf_page"
    ELSE "convert_djvu_page"

----------------------------------------------------------------------------
(* Initial state: convert has been called *)

Init ==
    /\ input_file \in InputFiles
    /\ input_content \in (IF get_mime_type(input_file) = "text/plain"
                          THEN PlainTexts ELSE {<<>>})
    /\ output_file \in OutputArgs
    /\ ocr_command \in OcrCommands
    /\ ocr_pages \in PageSpecs
    /\ fs \in (IF output_file = None
               THEN {<<>>}
               ELSE {<<>>} \cup {(0 :> c) : c \in OldContents})
    /\ ntmp = 0
    /\ pc = "start"
    /\ mime_type = "unset"
    /\ return_txt = FALSE
    /\ dest = 0
    /\ ret = NoRet
    /\ result = NoResult
    /\ num_pages = NoResult
    /\ pages_to_process = <<>>
    /\ idx = 0
    /\ tmp_file = 0
    /\ tmp_file_txt = 0
    /\ text = <<>>
    /\ ocr_ret = -1
    /\ calls = <<>>
    /\ removals = <<>>
    /\ returned = <<>>

----------------------------------------------------------------------------
(* convert *)

\* mime_type = get_mime_type(input_file)
Classify ==
    /\ pc = "start"
    /\ mime_type' = get_mime_type(input_file)
    /\ pc' = "classified"
    /\ UNCHANGED <<inputs, fs, ntmp, return_txt, dest, ret, result, num_pages,
                   loopvars, ocr_ret, calls, removals, returned>>

\* fault: the text is returned whether or not an output path is given
PlainTextReturn_AlwaysText == Text(ReadText(input_content))

\* fault: only the first call of convert gets the text of the input
PlainTextReturn_FirstCallOnly ==
    IF output_file = None
    THEN Text(IF returned = <<>> THEN ReadText(input_content) ELSE <<>>)
    ELSE Status(0)

\* what convert returns for a text/plain input
PlainTextReturn ==
    IF output_file = None THEN Text(ReadText(input_content)) ELSE Status(0)

\* if mime_type == 'text/plain': ...
PlainText ==
    /\ pc = "classified"
    /\ mime_type = "text/plain"
    /\ ret' = PlainTextReturn
    /\ pc' = "done"
    /\ UNCHANGED <<inputs, fs, ntmp, mime_type, return_txt, dest, result,
                   num_pages, loopvars, ocr_ret, calls, removals, returned>>

\* output_file.suffix != '.txt'
BadSuffix(p) == Suffix(p) # TxtSuffix

\* fault: the named output file is emptied when it exists already
PrepareOutput_Truncate(f) == WriteFile(f, 0, <<>>)

\* the named output file is kept if it exists, else touch makes it, empty
PrepareOutput(f) == IF 0 \in DOMAIN f THEN f ELSE WriteFile(f, 0, <<>>)

\* the temp output file, or the check and the placeholder of the named one
ResolveOutput ==
    /\ pc = "classified"
    /\ mime_type # "text/plain"
    /\ IF output_file = None
       THEN /\ return_txt' = TRUE
            /\ ntmp' = ntmp + 1
            /\ dest' = ntmp + 1
            /\ fs' = mkstemp(fs, ntmp + 1)
            /\ pc' = "ocr_file"
            /\ ret' = ret
       ELSE IF BadSuffix(output_file)
       THEN /\ ret' = Status(1)
            /\ pc' = "done"
            /\ UNCHANGED <<return_txt, ntmp, dest, fs>>
       ELSE /\ dest' = 0
            /\ fs' = PrepareOutput(fs)
            /\ pc' = "ocr_file"
            /\ UNCHANGED <<return_txt, ntmp, ret>>
    /\ UNCHANGED <<inputs, mime_type, result, num_pages, loopvars, ocr_ret,
                   calls, removals, returned>>

\* the value convert returns when ocr_file returned nonzero
OcrFailedReturn == Status(1)

\* if ocr_file(...): return 1
OcrFailed ==
    /\ pc = "ocr_returned"
    /\ ocr_ret # 0
    /\ ret' = OcrFailedReturn
    /\ pc' = "done"
    /\ UNCHANGED <<inputs, fs, ntmp, mime_type, return_txt, dest, result,
                   num_pages, loopvars, ocr_ret, calls, removals, returned>>

\* fault: the converted text is not checked
OutputValid_Skipped(content) == TRUE

\* fault: an empty file passes the check
OutputValid_EmptyPasses(content) ==
    content = <<>> \/ isalnum_in_file(content)

\* the check of the converted text
OutputValid(content) == isalnum_in_file(content)

\* fault: the temp output is kept when the converted text is rejected
RemoveRejected_Never == FALSE

\* if return_txt: remove_file(output_file), in the else branch of the check
RemoveRejected == return_txt

\* if isalnum_in_file(output_file): ... else: ... return 1
Validate ==
    /\ pc = "ocr_returned"
    /\ ocr_ret = 0
    /\ IF OutputValid(fs[dest])
       THEN /\ pc' = "validated"
            /\ UNCHANGED <<fs, ret, removals>>
       ELSE /\ IF RemoveRejected
               THEN \E ok \in BOOLEAN :
                        /\ fs' = IF ok THEN Unlink(fs, dest) ELSE fs
                        /\ removals' = Append(removals, [file |-> dest, ok |-> ok])
               ELSE UNCHANGED <<fs, removals>>
            /\ ret' = Status(1)
            /\ pc' = "done"
    /\ UNCHANGED <<inputs, ntmp, mime_type, return_txt, dest, result,
                   num_pages, loopvars, ocr_ret, calls, returned>>

\* the text read back, the assert, the removal of the temp output; or 0
ReturnResult ==
    /\ pc = "validated"
    /\ IF return_txt
       THEN IF ReadText(fs[dest]) = <<>>
            THEN /\ ret' = Raise("AssertionError")
                 /\ UNCHANGED <<fs, removals>>
            ELSE \E ok \in BOOLEAN :
                     /\ fs' = IF ok THEN Unlink(fs, dest) ELSE fs
                     /\ removals' = Append(removals, [file |-> dest, ok |-> ok])
                     /\ ret' = Text(ReadText(fs[dest]))
       ELSE /\ ret' = Status(0)
            /\ UNCHANGED <<fs, removals>>
    /\ pc' = "done"
    /\ UNCHANGED <<inputs, ntmp, mime_type, return_txt, dest, result,
                   num_pages, loopvars, ocr_ret, calls, returned>>

----------------------------------------------------------------------------
(* ocr_file: dispatch on the mime type, page count *)

\* the if / elif chain on mime_type
OcrFileDispatch ==
    /\ pc = "ocr_file"
    /\ IF mime_type = "None"
       THEN \* None has no startswith
            /\ ret' = Raise("AttributeError")
            /\ pc' = "done"
            /\ ocr_ret' = ocr_ret
       ELSE IF startswith(mime_type, "application/pdf")
       THEN /\ pc' = "get_pages_in_pdf"
            /\ UNCHANGED <<ret, ocr_ret>>
       ELSE IF startswith(mime_type, "image/vnd.djvu")
       THEN /\ pc' = "get_pages_in_djvu"
            /\ UNCHANGED <<ret, ocr_ret>>
       ELSE IF startswith(mime_type, "image/")
       THEN IF ocr_command \in Globals
            THEN /\ pc' = "ocr_image"
                 /\ UNCHANGED <<ret, ocr_ret>>
            ELSE /\ ocr_ret' = 1
                 /\ pc' = "ocr_returned"
                 /\ ret' = ret
       ELSE /\ ocr_ret' = 1
            /\ pc' = "ocr_returned"
            /\ ret' = ret
    /\ UNCHANGED <<inputs, fs, ntmp, mime_type, return_txt, dest, result,
                   num_pages, loopvars, calls, removals, returned>>

\* fault: the OCR function is given the caller's path, not the resolved one
ImageOutput_CallerPath == IF return_txt THEN 0 ELSE dest

\* the second argument of the OCR function in the image branch: output_file
ImageOutput == dest

\* result = eval(ocr_command(file_path, output_file)); return 0
OcrImage ==
    /\ pc = "ocr_image"
    /\ IF ocr_command \in OcrFunctions
       THEN /\ \E rc \in StepExitCodes :
               \E out \in (IF rc = 0 THEN OcrOutputs ELSE OcrFailOutputs) :
                   /\ fs' = WriteFile(fs, ImageOutput, out)
                   /\ calls' = Append(calls, Call(ocr_command, 0, 0, rc, out,
                                                <<InputFile, ImageOutput>>))
                   /\ result' = StrResult(rc)
            /\ ocr_ret' = 0
            /\ pc' = "ocr_returned"
            /\ ret' = ret
       ELSE /\ ret' = Raise("TypeError")
            /\ pc' = "done"
            /\ UNCHANGED <<fs, calls, result, ocr_ret>>
    /\ UNCHANGED <<inputs, ntmp, mime_type, return_txt, dest, num_pages,
                   loopvars, removals, returned>>

\* what mdls may print: a number, "(null)", or nothing
MdlsOutputs == {"int", "null", "empty"}

\* the page count n as a tool prints it
Printed(n) == <<DigitSeq[n + 1]>>

\* the standard output of mdls
MdlsStdout(kind, n) ==
    IF kind = "int" THEN Printed(n)
    ELSE IF kind = "null" THEN <<"(null)">>
    ELSE <<>>

\* fault: the recursive call is made with cmd='mdls' again
NullFallback_Primary == "get_pages_in_pdf"

\* return get_pages_in_pdf(file_path, cmd='pdfinfo')
NullFallback == "pdfinfo"

\* get_pages_in_pdf(cmd='mdls') when command_exists('mdls')
GetPagesInPdfMdls ==
    /\ pc = "get_pages_in_pdf"
    /\ \E rc \in ExitCodes, kind \in MdlsOutputs, n \in 0..MaxPages :
           /\ kind # "int" => n = 0
           /\ calls' = Append(calls,
                               Call("mdls", 0, 0, rc, MdlsStdout(kind, n),
                                    <<InputFile>>))
           /\ IF kind = "null"
              THEN /\ pc' = NullFallback
                   /\ UNCHANGED <<result, num_pages>>
              ELSE /\ result' = IF kind = "int" THEN IntResult(rc, n)
                                ELSE StrResult(rc)
                   /\ num_pages' = result'
                   /\ pc' = "counted"
    /\ UNCHANGED <<inputs, fs, ntmp, mime_type, return_txt, dest, ret,
                   loopvars, ocr_ret, removals, returned>>

\* the pdfinfo branch of get_pages_in_pdf: taken by the call with
\* cmd='pdfinfo', and by the first call when mdls does not exist on the host
GetPagesInPdfInfo ==
    /\ pc \in {"pdfinfo", "get_pages_in_pdf"}
    /\ \E rc \in ExitCodes, n \in 0..MaxPages :
           /\ rc # 0 => n = 0
           /\ calls' = Append(calls,
                               Call("pdfinfo", 0, 0, rc,
                                    IF rc = 0 THEN Printed(n) ELSE <<>>,
                                    <<InputFile>>))
           /\ result' = IF rc = 0 THEN IntResult(rc, n) ELSE StrResult(rc)
           /\ num_pages' = result'
    /\ pc' = "counted"
    /\ UNCHANGED <<inputs, fs, ntmp, mime_type, return_txt, dest, ret,
                   loopvars, ocr_ret, removals, returned>>

\* get_pages_in_djvu
GetPagesInDjvu ==
    /\ pc = "get_pages_in_djvu"
    /\ \E rc \in ExitCodes, n \in 0..MaxPages :
           /\ rc # 0 => n = 0
           /\ calls' = Append(calls,
                               Call("djvused", 0, 0, rc,
                                    IF rc = 0 THEN Printed(n) ELSE <<>>,
                                    <<InputFile>>))
           /\ result' = IF rc = 0 THEN IntResult(rc, n) ELSE StrResult(rc)
           /\ num_pages' = result'
    /\ pc' = "counted"
    /\ UNCHANGED <<inputs, fs, ntmp, mime_type, return_txt, dest, ret,
                   loopvars, ocr_ret, removals, returned>>

\* if result.returncode == 1
CountFailed(res) == res.returncode = 1

\* the checks between the page count and the page selection
CheckPageCount ==
    /\ pc = "counted"
    /\ IF CountFailed(result)
       THEN /\ ocr_ret' = 1
            /\ pc' = "ocr_returned"
            /\ ret' = ret
       ELSE IF ocr_command \notin Globals
       THEN /\ ocr_ret' = 1
            /\ pc' = "ocr_returned"
            /\ ret' = ret
       ELSE IF ~num_pages.isint
       THEN \* num_pages > 1 with num_pages a str
            /\ ret' = Raise("TypeError")
            /\ pc' = "done"
            /\ ocr_ret' = ocr_ret
       ELSE /\ pc' = "select_pages"
            /\ UNCHANGED <<ret, ocr_ret>>
    /\ UNCHANGED <<inputs, fs, ntmp, mime_type, return_txt, dest, result,
                   num_pages, loopvars, calls, removals, returned>>

\* pages_to_process
SelectedPages ==
    IF ocr_pages # None /\ ocr_pages # <<>>
    THEN PagesFromSpec(ocr_pages)
    ELSE AllPages(num_pages.n)

\* if ocr_pages: ... else: ...
SelectPages ==
    /\ pc = "select_pages"
    /\ IF ocr_pages # None /\ ocr_pages # <<>> /\ SpecRaises(ocr_pages)
       THEN /\ ret' = Raise("ValueError")
            /\ pc' = "done"
            /\ UNCHANGED <<pages_to_process, text, idx>>
       ELSE /\ pages_to_process' = SelectedPages
            /\ text' = <<>>
            /\ idx' = 0
            /\ pc' = "loop"
            /\ ret' = ret
    /\ UNCHANGED <<inputs, fs, ntmp, mime_type, return_txt, dest, result,
                   num_pages, tmp_file, tmp_file_txt, ocr_ret, calls, removals,
                   returned>>

----------------------------------------------------------------------------
(* ocr_file: the per-page loop *)

\* the page of the current iteration
page == pages_to_process[idx]

\* for i, page in enumerate(pages_to_process, start=1): two mkstemp calls;
\* or the end of the loop
LoopNext ==
    /\ pc = "loop"
    /\ IF idx < Len(pages_to_process)
       THEN /\ idx' = idx + 1
            /\ tmp_file' = ntmp + 1
            /\ tmp_file_txt' = ntmp + 2
            /\ fs' = mkstemp(mkstemp(fs, ntmp + 1), ntmp + 2)
            /\ ntmp' = ntmp + 2
            /\ pc' = "rasterize"
       ELSE /\ pc' = "save_text"
            /\ UNCHANGED <<idx, tmp_file, tmp_file_txt, fs, ntmp>>
    /\ UNCHANGED <<inputs, mime_type, return_txt, dest, ret, result, num_pages,
                   pages_to_process, text, ocr_ret, calls, removals, returned>>

\* fault: the exit status of the rasterizer is not looked at
RasterOk_Ignored(res) == TRUE

\* if result.returncode == 0 (after page_convert_cmd)
RasterOk(res) == res.returncode = 0

\* fault: a failed page goes straight to the next one
AfterPageFailure_Continue == "loop"

\* fault: a failed step sends the page back to the rasterizer
AfterPageFailure_Retry == "rasterize"

\* where a page that failed goes next: the else branches fall through to
\* "Remove temporary files"
AfterPageFailure == "remove_tmp_file"

\* result = page_convert_cmd(page, file_path, tmp_file)
Rasterize ==
    /\ pc = "rasterize"
    /\ \E rc \in StepExitCodes :
           /\ calls' = Append(calls,
                               Call(page_convert_cmd, idx, page, rc, <<>>,
                                    <<InputFile, tmp_file>>))
           /\ result' = StrResult(rc)
           /\ fs' = IF rc = 0 THEN WriteFile(fs, tmp_file, <<"IMG">>) ELSE fs
    /\ pc' = IF RasterOk(result') THEN "ocr" ELSE AfterPageFailure
    /\ UNCHANGED <<inputs, ntmp, mime_type, return_txt, dest, ret, num_pages,
                   loopvars, ocr_ret, removals, returned>>

\* fault: the exit status of the OCR command is not looked at
OcrOk_Ignored(res) == TRUE

\* if result.returncode == 0 (after the OCR command)
OcrOk(res) == res.returncode = 0

\* result = eval(ocr_command(tmp_file, tmp_file_txt))
Ocr ==
    /\ pc = "ocr"
    /\ IF ocr_command \in OcrFunctions
       THEN /\ \E rc \in StepExitCodes :
               \E out \in (IF rc = 0 THEN OcrOutputs ELSE OcrFailOutputs) :
                   /\ calls' = Append(calls,
                                       Call(ocr_command, idx, page, rc, out,
                                            <<tmp_file, tmp_file_txt>>))
                   /\ result' = StrResult(rc)
                   /\ fs' = WriteFile(fs, tmp_file_txt, out)
            /\ pc' = IF OcrOk(result') THEN "read_page_text" ELSE AfterPageFailure
            /\ ret' = ret
       ELSE /\ ret' = Raise("TypeError")
            /\ pc' = "done"
            /\ UNCHANGED <<fs, calls, result>>
    /\ UNCHANGED <<inputs, ntmp, mime_type, return_txt, dest, num_pages,
                   loopvars, ocr_ret, removals, returned>>

\* fault: the page text put in front of the accumulator
Accumulate_Prepend(acc, data) == data \o acc

\* text += data
Accumulate(acc, data) == acc \o data

\* with open(tmp_file_txt, 'r') as f: data = f.read(); text += data
ReadPageText ==
    /\ pc = "read_page_text"
    /\ text' = Accumulate(text, ReadText(fs[tmp_file_txt]))
    /\ pc' = "remove_tmp_file"
    /\ UNCHANGED <<inputs, fs, ntmp, mime_type, return_txt, dest, ret, result,
                   num_pages, pages_to_process, idx, tmp_file, tmp_file_txt,
                   ocr_ret, calls, removals, returned>>

\* fault: OSError is not caught, a failed os.remove ends the conversion
remove_file_Uncaught(id, next) ==
    /\ \E ok \in BOOLEAN :
           /\ fs' = IF ok /\ id \in DOMAIN fs THEN Unlink(fs, id) ELSE fs
           /\ removals' = Append(removals,
                                 [file |-> id, ok |-> ok /\ id \in DOMAIN fs])
           /\ pc' = IF ok /\ id \in DOMAIN fs THEN next ELSE "done"

\* remove_file(file_path): os.remove succeeds, or OSError is caught
remove_file(id, next) ==
    /\ \E ok \in BOOLEAN :
           /\ fs' = IF ok /\ id \in DOMAIN fs THEN Unlink(fs, id) ELSE fs
           /\ removals' = Append(removals,
                                 [file |-> id, ok |-> ok /\ id \in DOMAIN fs])
    /\ pc' = next

\* remove_file(tmp_file)
RemoveTmpFile ==
    /\ pc = "remove_tmp_file"
    /\ remove_file(tmp_file, "remove_tmp_file_txt")
    /\ UNCHANGED <<inputs, ntmp, mime_type, return_txt, dest, ret, result,
                   num_pages, loopvars, ocr_ret, calls, returned>>

\* fault: the second removal is given tmp_file again
TxtRemoved_RasterAgain == tmp_file

\* the argument of the second removal of an iteration
TxtRemoved == tmp_file_txt

\* remove_file(tmp_file_txt)
RemoveTmpFileTxt ==
    /\ pc = "remove_tmp_file_txt"
    /\ remove_file(TxtRemoved, "loop")
    /\ UNCHANGED <<inputs, ntmp, mime_type, return_txt, dest, ret, result,
                   num_pages, loopvars, ocr_ret, calls, returned>>

\* fault: ocr_file returns 1 when a rasterizer or OCR call of the loop failed
LoopReturn_FailedPage ==
    IF \E j \in 1..Len(calls) : calls[j].occ > 0 /\ calls[j].rc # 0
    THEN 1 ELSE 0

\* return 0, after the loop
LoopReturn == 0

\* with open(output_file, 'w') as f: f.write(text); return 0
SaveText ==
    /\ pc = "save_text"
    /\ fs' = WriteFile(fs, dest, WriteText(text))
    /\ ocr_ret' = LoopReturn
    /\ pc' = "ocr_returned"
    /\ UNCHANGED <<inputs, ntmp, mime_type, return_txt, dest, ret, result,
                   num_pages, loopvars, calls, removals, returned>>

----------------------------------------------------------------------------

Next ==
    \/ Classify
    \/ PlainText
    \/ ResolveOutput
    \/ OcrFileDispatch
    \/ OcrImage
    \/ GetPagesInPdfMdls
    \/ GetPagesInPdfInfo
    \/ GetPagesInDjvu
    \/ CheckPageCount
    \/ SelectPages
    \/ LoopNext
    \/ Rasterize
    \/ Ocr
    \/ ReadPageText
    \/ RemoveTmpFile
    \/ RemoveTmpFileTxt
    \/ SaveText
    \/ OcrFailed
    \/ Validate
    \/ ReturnResult

Spec == Init /\ [][Next]_vars

----------------------------------------------------------------------------
(* Vocabulary of the properties *)

Done == pc = "done"

IsPlainText == get_mime_type(input_file) = "text/plain"

IsDocument == get_mime_type(input_file) \in {"application/pdf", "image/vnd.djvu"}

IsUnsupported == get_mime_type(input_file) \in {"application/msword", "None"}

Succeeded ==
    Done /\ (ret.kind = "text" \/ (ret.kind = "status" /\ ret.status = 0))

Failed == Done /\ ret.kind = "status" /\ ret.status = 1

Last(s) == s[Len(s)]

HasAlnum(t) == \E k \in 1..Len(t) : t[k] \in AlnumChars

Rasterizers == {"convert_pdf_page", "convert_djvu_page"}

\* Text with every "\r\n" and every lone "\r" replaced by "\n": the positions
\* kept are all but a "\n" that follows a "\r", in their order.
KeptPositions(s) == {k \in 1..Len(s) : ~(s[k] = "LF" /\ k > 1 /\ s[k - 1] = "CR")}

NthKept(s, j) ==
    CHOOSE k \in KeptPositions(s) :
        Cardinality({m \in KeptPositions(s) : m < k}) = j - 1

NormalizedNewlines(s) ==
    [j \in 1..Cardinality(KeptPositions(s)) |->
        IF s[NthKept(s, j)] = "CR" THEN "LF" ELSE s[NthKept(s, j)]]

\* The rasterizer and the OCR command both ran with exit status 0 for the
\* k-th element of the selected sequence.
OccurrenceOk(k) ==
    /\ \E j \in 1..Len(calls) :
           /\ calls[j].tool \in Rasterizers
           /\ calls[j].occ = k
           /\ calls[j].page = pages_to_process[k]
           /\ calls[j].rc = 0
    /\ \E j \in 1..Len(calls) :
           /\ calls[j].tool = ocr_command
           /\ calls[j].occ = k
           /\ calls[j].rc = 0

\* The OCR text of the k-th element: what the OCR command wrote for it.
OcrTextOf(k) ==
    LET j == CHOOSE m \in 1..Len(calls) :
                 calls[m].tool = ocr_command /\ calls[m].occ = k
    IN  NormalizedNewlines(calls[j].out)

RECURSIVE ConcatOk(_)
ConcatOk(n) ==
    IF n = 0 THEN <<>>
    ELSE ConcatOk(n - 1) \o (IF OccurrenceOk(n) THEN OcrTextOf(n) ELSE <<>>)

----------------------------------------------------------------------------
(* C1 *)

\* C1: for a PDF or DjVu input, what ocr_file writes to the destination is
\* the concatenation, in the order of the selected page sequence (duplicates
\* kept, nothing sorted), of the OCR text (as read back in text mode) of
\* exactly the page occurrences whose rasterization and OCR both exited 0.
C1_OrderedConcat ==
    (pc = "ocr_returned" /\ IsDocument /\ ocr_ret = 0) =>
        /\ dest \in DOMAIN fs
        /\ fs[dest] = ConcatOk(Len(pages_to_process))

\* sequence [2,1], both pages converted: page-2 text, then page-1 text
C1_Witness ==
    /\ pc = "ocr_returned"
    /\ IsDocument
    /\ ocr_ret = 0
    /\ pages_to_process = <<2, 1>>
    /\ OccurrenceOk(1)
    /\ OccurrenceOk(2)
    /\ OcrTextOf(1) = <<"_">>
    /\ OcrTextOf(2) = <<"a", "LF">>
    /\ fs[dest] = <<"_", "a", "LF">>

----------------------------------------------------------------------------
(* C2 *)

\* C2: for a non-plain-text input, convert reports success only if the
\* destination, as ocr_file left it, holds an alphanumeric character; and
\* when ocr_file returned 0 but the destination holds none, convert
\* returns 1.
C2_ValidationGate ==
    [][ /\ (~IsPlainText /\ ~Done /\ Succeeded') =>
               (ocr_ret = 0 /\ dest \in DOMAIN fs /\ HasAlnum(fs[dest]))
        /\ (pc = "ocr_returned" /\ ocr_ret = 0 /\ ~HasAlnum(fs[dest])) =>
               Failed'
      ]_vars

\* every external tool exited 0, the text has no alphanumeric character,
\* convert returned 1
C2_Witness ==
    /\ Failed
    /\ IsDocument
    /\ ocr_ret = 0
    /\ Len(calls) >= 3
    /\ \A j \in 1..Len(calls) : calls[j].rc = 0
    /\ output_file # None
    /\ fs[0] = <<"_">>

----------------------------------------------------------------------------
(* C3 *)

\* the text extracted from the input: the content of a plain-text input,
\* the accumulator of the page loop, or what the OCR command wrote for an
\* image
ExtractedText ==
    IF IsPlainText THEN input_content
    ELSE IF IsDocument THEN text
    ELSE Last(calls).out

\* C3: when convert is called with an output path and returns 0, the
\* extracted text is in the file at that path; when it is called without one
\* and succeeds, it returns the extracted text; for every input kind, a
\* plain-text input included.
C3_TextPersisted ==
    /\ (Succeeded /\ output_file # None) =>
           /\ ret.kind = "status"
           /\ 0 \in DOMAIN fs
           /\ fs[0] = ExtractedText
    /\ (Succeeded /\ output_file = None) =>
           /\ ret.kind = "text"
           /\ ret.text = NormalizedNewlines(ExtractedText)

\* the part of C3 that is not about a plain-text input
C3_ExceptPlainText == IsPlainText \/ C3_TextPersisted

----------------------------------------------------------------------------
(* C4 *)

\* C4 as stated: a plain-text input always gives back the exact content of
\* the file, with or without an output path, without any external tool and
\* without a temp file.
C4_ExactContentAlways ==
    (Done /\ IsPlainText) =>
        /\ ret.kind = "text"
        /\ ret.text = input_content
        /\ calls = <<>>
        /\ ntmp = 0

\* C4, amended: for a plain-text input convert runs no external tool, makes
\* no temp file and removes nothing; without an output path it returns the
\* content of the file as a text-mode read gives it ("\r\n" and "\r" come
\* back as "\n", so the exact content when the file has no "\r"); with an
\* output path it returns 0.
C4_PlainTextShortCircuit ==
    (Done /\ IsPlainText) =>
        /\ output_file = None =>
               /\ ret.kind = "text"
               /\ ret.text = NormalizedNewlines(input_content)
               /\ (\A k \in 1..Len(input_content) : input_content[k] # "CR")
                      => ret.text = input_content
        /\ output_file # None => (ret.kind = "status" /\ ret.status = 0)
        /\ calls = <<>>
        /\ ntmp = 0
        /\ removals = <<>>

\* a file with a "\r\n" is returned with "\n"
C4_Witness ==
    /\ Done
    /\ IsPlainText
    /\ output_file = None
    /\ input_content = <<"a", "CR", "LF", "b">>
    /\ ret.kind = "text"
    /\ ret.text = <<"a", "LF", "b">>

----------------------------------------------------------------------------
(* C5, C6, C7 *)

\* the file ids the page loop got from mkstemp
PerPageTmp == {f \in 1..ntmp : f # dest}

\* this step is remove_file(f): one more removal, of f, and f is gone
\* unless os.remove raised OSError
RemovalOf(f) ==
    /\ Len(removals') = Len(removals) + 1
    /\ Last(removals').file = f
    /\ Last(removals').ok => f \notin DOMAIN fs'

\* the last external command is the rasterizer of the current page
\* occurrence, and it failed
RasterJustFailed ==
    /\ IsDocument
    /\ calls # <<>>
    /\ Last(calls).tool \in Rasterizers
    /\ Last(calls).occ = idx
    /\ Last(calls).rc # 0

\* the last external command is the OCR command of the current page
\* occurrence, and it failed
OcrJustFailed ==
    /\ IsDocument
    /\ calls # <<>>
    /\ Last(calls).tool = ocr_command
    /\ Last(calls).occ = idx
    /\ Last(calls).rc # 0

\* the positions from the failure of a page to the return of ocr_file
AfterPage == {"remove_tmp_file", "remove_tmp_file_txt", "loop", "save_text"}

\* the steps after a failed page: both removals, then the next page
\* occurrence or the end of the loop and ocr_file returning 0; the
\* accumulator is not touched, no external command runs for this occurrence,
\* nothing is raised
SkipAndContinue ==
    /\ pc = "remove_tmp_file" =>
           /\ RemovalOf(tmp_file)
           /\ pc' = "remove_tmp_file_txt"
           /\ calls' = calls
    /\ pc = "remove_tmp_file_txt" =>
           /\ RemovalOf(tmp_file_txt)
           /\ pc' = "loop"
           /\ calls' = calls
    /\ pc = "loop" =>
           /\ pc' = IF idx < Len(pages_to_process) THEN "rasterize" ELSE "save_text"
           /\ idx' = IF idx < Len(pages_to_process) THEN idx + 1 ELSE idx
           /\ calls' = calls
    /\ pc = "save_text" => (pc' = "ocr_returned" /\ ocr_ret' = 0)
    /\ text' = text
    /\ ret' = ret

\* C5: when the rasterizer exits nonzero for a page occurrence, the OCR
\* command is not run for it, the accumulator is unchanged, remove_file is
\* called on both of its temp files (each is gone unless os.remove failed),
\* the loop goes on with the next occurrence, and ocr_file returns 0.
C5_RasterFailureSkips ==
    [][ /\ (pc = "rasterize" /\ result'.returncode # 0) =>
               /\ pc' = "remove_tmp_file"
               /\ text' = text
               /\ Len(calls') = Len(calls) + 1
               /\ Last(calls').tool \in Rasterizers
        /\ (RasterJustFailed /\ pc \in AfterPage) => SkipAndContinue
      ]_vars

\* page 1 was not rasterized, page 2 was converted: the output is the text
\* of page 2 and no OCR ran for the first occurrence
C5_Witness ==
    /\ pc = "ocr_returned"
    /\ ocr_ret = 0
    /\ IsDocument
    /\ Len(pages_to_process) = 2
    /\ \E j \in 1..Len(calls) :
           calls[j].tool \in Rasterizers /\ calls[j].occ = 1 /\ calls[j].rc # 0
    /\ \A j \in 1..Len(calls) : calls[j].occ = 1 => calls[j].tool \in Rasterizers
    /\ OccurrenceOk(2)
    /\ fs[dest] = OcrTextOf(2)
    /\ DOMAIN fs \cap PerPageTmp = {}

\* C6: when the OCR command exits nonzero for a page occurrence that was
\* rasterized, the temp text file is not read and nothing is appended,
\* remove_file is called on both temp files (each is gone unless os.remove
\* failed), and the loop goes on with the next occurrence.
C6_OcrFailureSkips ==
    [][ /\ (pc = "ocr" /\ result'.returncode # 0) =>
               /\ pc' = "remove_tmp_file"
               /\ text' = text
        /\ (OcrJustFailed /\ pc \in AfterPage) => SkipAndContinue
      ]_vars

\* the OCR of the first occurrence failed leaving "a" in its temp text
\* file, the second occurrence gave "_": the output is "_" alone
C6_Witness ==
    /\ pc = "ocr_returned"
    /\ ocr_ret = 0
    /\ IsDocument
    /\ Len(pages_to_process) = 2
    /\ \E j \in 1..Len(calls) :
           /\ calls[j].tool = ocr_command
           /\ calls[j].occ = 1
           /\ calls[j].rc # 0
           /\ calls[j].out = <<"a">>
    /\ OccurrenceOk(2)
    /\ fs[dest] = <<"_">>
    /\ DOMAIN fs \cap PerPageTmp = {}

\* C7: between two page occurrences and after the loop, remove_file has
\* been called on every temp file the loop allocated, whatever happened to
\* the page; a file whose removals all succeeded does not exist any more, so
\* none is left when ocr_file returns if no os.remove failed.  The three
\* ways a page ends are success, rasterization failure and OCR failure; an
\* exception raised inside the loop is not one of them.
C7_TempFilesReleased ==
    (/\ pc \in {"loop", "save_text", "ocr_returned", "validated", "done"}
     /\ ret.kind # "raise") =>
        \A f \in PerPageTmp :
            /\ \E k \in 1..Len(removals) : removals[k].file = f
            /\ (\A k \in 1..Len(removals) :
                    removals[k].file = f => removals[k].ok)
                   => f \notin DOMAIN fs

\* one page failed at rasterization, one at OCR, every removal succeeded:
\* four temp files were made and none is left
C7_Witness ==
    /\ pc = "ocr_returned"
    /\ ocr_ret = 0
    /\ Cardinality(PerPageTmp) = 4
    /\ DOMAIN fs \cap PerPageTmp = {}
    /\ \A k \in 1..Len(removals) : removals[k].ok
    /\ \E j \in 1..Len(calls) : calls[j].tool \in Rasterizers /\ calls[j].rc # 0
    /\ \E j \in 1..Len(calls) : calls[j].tool = ocr_command /\ calls[j].rc # 0

----------------------------------------------------------------------------
(* C8, C9, C10 *)

\* C8: when convert returns 1 for a non-plain-text input, it has not
\* removed the file at a supplied output path, and it has removed the temp
\* output file it made when no output path was supplied.
C8_FailureCleanup ==
    (Failed /\ ~IsPlainText) =>
        /\ output_file # None =>
               \A k \in 1..Len(removals) : removals[k].file # 0
        /\ output_file = None =>
               \E k \in 1..Len(removals) :
                   /\ removals[k].file = dest
                   /\ removals[k].ok => dest \notin DOMAIN fs

\* the part of C8 about the failure of the final validation
C8_ValidationFailureCleanup == (ocr_ret = 0) => C8_FailureCleanup

\* p ends in ".txt"
EndsWithTxt(p) == Len(p) >= 4 /\ SubSeq(p, Len(p) - 3, Len(p)) = TxtSuffix

\* C9: for every input, an output path that does not end in .txt makes
\* convert return 1 at once: no temp file, no placeholder file, no external
\* tool.
C9_BadExtensionFails ==
    (output_file # None /\ ~EndsWithTxt(output_file)) =>
        /\ Done => Failed
        /\ ntmp = 0
        /\ calls = <<>>
        /\ 0 \in DOMAIN fs => fs[0] \in OldContents

\* C9 for the inputs that are not plain text
C9_ExceptPlainText == IsPlainText \/ C9_BadExtensionFails

\* C10: for an unsupported or undetectable document kind convert ends with
\* status 1, raises nothing, and runs no page counter, rasterizer or OCR
\* command.
C10_UnsupportedFails ==
    IsUnsupported =>
        /\ Done => Failed
        /\ calls = <<>>

\* C10 for the kinds the classifier names
C10_DetectedKind == (get_mime_type(input_file) = "None") \/ C10_UnsupportedFails

----------------------------------------------------------------------------
(* C11 *)

\* an image that is not a DjVu document (ocr_file tests DjVu first)
IsImage ==
    /\ startswith(get_mime_type(input_file), "image/")
    /\ ~IsDocument

PageWork(c) == c.tool \in Rasterizers \/ c.tool = ocr_command

\* C11: for an input whose conversion needs the OCR backend (PDF, DjVu or
\* image), a backend name that is not a known backend makes convert return
\* 1 before any page work: no per-page temp file is made, no rasterizer and
\* no OCR function is called, and the per-page loop never reaches its OCR
\* step with such a name.
C11_UnknownBackendFails ==
    (/\ ocr_command \notin OcrFunctions
     /\ IsDocument \/ IsImage) =>
        /\ Done => Failed
        /\ PerPageTmp = {}
        /\ \A j \in 1..Len(calls) : ~PageWork(calls[j])
        /\ pc # "ocr"

----------------------------------------------------------------------------
(* C12 *)

\* the exit status of the page-count tool whose result ocr_file uses
\* (-1 before the count)
CountExitStatus == num_pages.returncode

\* C12: for a PDF or DjVu input, a page-count tool that ends with any
\* nonzero exit status makes convert return 1 before any page is processed:
\* no per-page temp file, no rasterizer, no OCR call, whatever the page
\* specification.
C12_CountFailureAborts ==
    (IsDocument /\ CountExitStatus > 0) =>
        /\ Done => Failed
        /\ PerPageTmp = {}
        /\ \A j \in 1..Len(calls) : ~PageWork(calls[j])

----------------------------------------------------------------------------
(* The page selector on its own: every page spec up to a length *)

MaxSpecLen == 5

SpecChars == {"0", "1", "2", "3", "4", "5", ",", "-"}

\* every string of at most MaxSpecLen characters, and None
BoundedSpecs ==
    {None} \cup UNION {[1..n -> SpecChars] : n \in 0..MaxSpecLen}

\* ocr_file is about to select the pages of a PDF whose page count pdfinfo
\* gave; the count is read only when there is no page spec
InitSelector ==
    /\ input_file = "in.pdf"
    /\ input_content = <<>>
    /\ output_file = <<"o", ".", "t", "x", "t">>
    /\ ocr_command = "tesseract_wrapper"
    /\ ocr_pages \in BoundedSpecs
    /\ fs = (0 :> <<>>)
    /\ ntmp = 0
    /\ pc = "select_pages"
    /\ mime_type = "application/pdf"
    /\ return_txt = FALSE
    /\ dest = 0
    /\ ret = NoRet
    /\ \E n \in (IF ocr_pages \in {None, <<>>} THEN 0..MaxPages ELSE {MaxPages}) :
           /\ result = IntResult(0, n)
           /\ num_pages = IntResult(0, n)
    /\ pages_to_process = <<>>
    /\ idx = 0
    /\ tmp_file = 0
    /\ tmp_file_txt = 0
    /\ text = <<>>
    /\ ocr_ret = -1
    /\ calls = <<Call("pdfinfo", 0, 0, 0, Printed(num_pages.n),
                      <<InputFile>>)>>
    /\ removals = <<>>
    /\ returned = <<>>

NextSelector == SelectPages

SpecSelector == InitSelector /\ [][NextSelector]_vars

\* the selector has run without an exception
Selected == pc = "loop"

IsNumber(t) == Len(t) > 0 /\ \A k \in 1..Len(t) : t[k] \in Digits

\* where the dash of a token is (0 when there is none)
DashAt(t) ==
    IF \E k \in 1..Len(t) : t[k] = "-"
    THEN CHOOSE k \in 1..Len(t) : t[k] = "-"
    ELSE 0

\* a token A-B of two integers
IsDashPair(t) ==
    /\ DashAt(t) > 0
    /\ IsNumber(SubSeq(t, 1, DashAt(t) - 1))
    /\ IsNumber(SubSeq(t, DashAt(t) + 1, Len(t)))

PairA(t) == int(SubSeq(t, 1, DashAt(t) - 1))

PairB(t) == int(SubSeq(t, DashAt(t) + 1, Len(t)))

\* p runs from a to b inclusive in steps of one, up when a <= b and down
\* when a > b
RunsFromTo(p, a, b) ==
    /\ Len(p) = (IF a <= b THEN b - a ELSE a - b) + 1
    /\ p[1] = a
    /\ p[Len(p)] = b
    /\ \A k \in 1..(Len(p) - 1) :
           p[k + 1] = p[k] + (IF a <= b THEN 1 ELSE -1)

\* C13: a page spec that is one dash pair A-B selects A, A+1, ..., B when
\* A <= B (the single page A when A = B) and A, A-1, ..., B when A > B.
C13_DashPairExpansion ==
    (/\ pc \in {"loop", "done"}
     /\ ocr_pages # None
     /\ IsDashPair(ocr_pages)) =>
        /\ Selected
        /\ RunsFromTo(pages_to_process, PairA(ocr_pages), PairB(ocr_pages))

\* "5-3" selected 5, 4, 3; (C13_WitnessEqual: "4-4" selected page 4 alone)
C13_Witness ==
    /\ Selected
    /\ ocr_pages = <<"5", "-", "3">>
    /\ pages_to_process = <<5, 4, 3>>

C13_WitnessEqual ==
    /\ Selected
    /\ ocr_pages = <<"4", "-", "4">>
    /\ pages_to_process = <<4>>

----------------------------------------------------------------------------
(* C14 *)

Commas(s) == {k \in 1..Len(s) : s[k] = ","}

\* the tokens of a page spec are what its commas separate
TokenCount(s) == Cardinality(Commas(s)) + 1

NthComma(s, i) ==
    CHOOSE k \in Commas(s) : Cardinality({m \in Commas(s) : m < k}) = i - 1

TokenAt(s, i) ==
    SubSeq(s,
           IF i = 1 THEN 1 ELSE NthComma(s, i - 1) + 1,
           IF i = TokenCount(s) THEN Len(s) ELSE NthComma(s, i) - 1)

\* every token is an integer or a dash pair of integers
WellFormed(s) ==
    \A i \in 1..TokenCount(s) :
        IsNumber(TokenAt(s, i)) \/ IsDashPair(TokenAt(s, i))

\* the pages one token stands for
Expansion(t) ==
    IF IsNumber(t) THEN <<int(t)>>
    ELSE LET a == PairA(t)
             b == PairB(t)
         IN  [k \in 1..((IF a <= b THEN b - a ELSE a - b) + 1) |->
                 IF a <= b THEN a + k - 1 ELSE a - k + 1]

\* the expansions of the first n tokens, one after the other
RECURSIVE ConcatExpansions(_, _)
ConcatExpansions(s, n) ==
    IF n = 0 THEN <<>>
    ELSE ConcatExpansions(s, n - 1) \o Expansion(TokenAt(s, n))

\* C14: for a page spec of integers and dash pairs, the selected pages are
\* the expansions of the tokens put one after the other in token order;
\* nothing is removed as a duplicate and nothing is sorted.
C14_TokenOrderKept ==
    (/\ pc \in {"loop", "done"}
     /\ ocr_pages \notin {None, <<>>}
     /\ WellFormed(ocr_pages)) =>
        /\ Selected
        /\ pages_to_process =
               ConcatExpansions(ocr_pages, TokenCount(ocr_pages))

\* "3,3,2" selected 3, 3, 2: the duplicate is kept and 2 stays last
C14_Witness ==
    /\ Selected
    /\ ocr_pages = <<"3", ",", "3", ",", "2">>
    /\ pages_to_process = <<3, 3, 2>>

\* "3,5-4" selected 3, 5, 4
C14_WitnessPair ==
    /\ Selected
    /\ ocr_pages = <<"3", ",", "5", "-", "4">>
    /\ pages_to_process = <<3, 5, 4>>

----------------------------------------------------------------------------
(* C15 *)

\* the steps of ocr_file from the page selection to the end of the loop
InLoop == {"loop", "rasterize", "ocr", "read_page_text", "remove_tmp_file",
           "remove_tmp_file_txt", "save_text"}

IsRasterCall(c) == c.tool \in Rasterizers

\* the rasterizer calls made so far, in the order they were made
RasterCalls == SelectSeq(calls, IsRasterCall)

\* C15: with no page spec (None or empty) and a document of N pages, the
\* selected pages are exactly 1, 2, ..., N (none when N = 0), and the loop
\* rasterizes each of them once, in that order.
C15_DefaultAllPages ==
    (ocr_pages \in {None, <<>>} /\ pc \in InLoop) =>
        /\ pages_to_process = [k \in 1..num_pages.n |-> k]
        /\ Len(RasterCalls) <= num_pages.n
        /\ \A k \in 1..Len(RasterCalls) : RasterCalls[k].page = k
        /\ pc = "save_text" => Len(RasterCalls) = num_pages.n

\* no page spec, MaxPages pages: the loop is over and the rasterizer ran
\* once for each page
C15_Witness ==
    /\ pc = "save_text"
    /\ ocr_pages = None
    /\ num_pages.n = MaxPages
    /\ Len(RasterCalls) = MaxPages
    /\ RasterCalls[1].page = 1
    /\ RasterCalls[MaxPages].page = MaxPages

\* an empty page spec and a document of no pages: nothing is rasterized
C15_WitnessNoPages ==
    /\ pc = "save_text"
    /\ ocr_pages = <<>>
    /\ num_pages.n = 0
    /\ pages_to_process = <<>>
    /\ RasterCalls = <<>>

----------------------------------------------------------------------------
(* C16 *)

\* the per-page loop of a PDF or DjVu input ran to its end
LoopCompleted == IsDocument /\ ocr_ret = 0

\* every element of the selected sequence failed at rasterization or at OCR
AllOccurrencesFailed ==
    /\ LoopCompleted
    /\ \A k \in 1..Len(pages_to_process) : ~OccurrenceOk(k)

\* C16 as claimed: if every page occurrence failed, then after convert
\* returns the output file exists and is empty and convert returned 1,
\* with and without an output path.
C16_EmptyOutputKept ==
    (Done /\ AllOccurrencesFailed) =>
        /\ Failed
        /\ dest \in DOMAIN fs
        /\ fs[dest] = <<>>

\* C16 amended: if every page occurrence failed, convert returns 1; with
\* an output path, the file at that path exists and is empty afterwards;
\* without one, the temp output was given to remove_file and exists
\* afterwards only if os.remove failed, and is then empty.
C16_AllFailedReportsFailure ==
    (Done /\ AllOccurrencesFailed) =>
        /\ Failed
        /\ output_file # None =>
               /\ dest = 0
               /\ 0 \in DOMAIN fs
               /\ fs[0] = <<>>
        /\ output_file = None =>
               /\ dest # 0
               /\ removals # <<>>
               /\ Last(removals).file = dest
               /\ Last(removals).ok <=> dest \notin DOMAIN fs
               /\ dest \in DOMAIN fs => fs[dest] = <<>>

\* one page failed at rasterization and one at OCR, no output path: convert
\* returned 1 and the temp output is gone; (C16_WitnessOutputPath: the same
\* with an output path, the file is there and empty)
C16_Witness ==
    /\ Failed
    /\ AllOccurrencesFailed
    /\ output_file = None
    /\ Len(pages_to_process) = 2
    /\ \E j \in 1..Len(calls) : calls[j].tool \in Rasterizers /\ calls[j].rc # 0
    /\ \E j \in 1..Len(calls) : calls[j].tool = ocr_command /\ calls[j].rc # 0
    /\ dest \notin DOMAIN fs

C16_WitnessOutputPath ==
    /\ Failed
    /\ AllOccurrencesFailed
    /\ output_file # None
    /\ Len(pages_to_process) = 2
    /\ \E j \in 1..Len(calls) : calls[j].tool \in Rasterizers /\ calls[j].rc # 0
    /\ \E j \in 1..Len(calls) : calls[j].tool = ocr_command /\ calls[j].rc # 0
    /\ fs[0] = <<>>

----------------------------------------------------------------------------
(* C17 *)

\* the page-count tool ended with status 0 and gave a number
CountObtained == CountExitStatus = 0 /\ num_pages.isint

\* the k-th element of the selected sequence was rasterized and OCRed with
\* exit status 0 and its text has an alphanumeric character
GoodOccurrence(k) == OccurrenceOk(k) /\ HasAlnum(OcrTextOf(k))

\* C17: for a PDF or DjVu input whose page count was obtained and whose
\* backend is an OCR function, convert succeeds as soon as one element of
\* the selected sequence was rasterized and OCRed into text with an
\* alphanumeric character, whatever happened to the other elements.
C17_OneGoodPageSuffices ==
    (/\ Done
     /\ IsDocument
     /\ CountObtained
     /\ ocr_command \in OcrFunctions
     /\ \E k \in 1..Len(pages_to_process) : GoodOccurrence(k)) =>
        Succeeded

\* two elements: the first failed at rasterization, the second gave text,
\* and convert succeeded
C17_Witness ==
    /\ Succeeded
    /\ IsDocument
    /\ CountObtained
    /\ Len(pages_to_process) = 2
    /\ \E j \in 1..Len(calls) :
           /\ calls[j].tool \in Rasterizers
           /\ calls[j].occ = 1
           /\ calls[j].rc # 0
    /\ GoodOccurrence(2)

\* the same with the first element failing at OCR
C17_WitnessOcrFailure ==
    /\ Succeeded
    /\ IsDocument
    /\ CountObtained
    /\ Len(pages_to_process) = 2
    /\ \E j \in 1..Len(calls) :
           /\ calls[j].tool = ocr_command
           /\ calls[j].occ = 1
           /\ calls[j].rc # 0
    /\ GoodOccurrence(2)

----------------------------------------------------------------------------
(* convert called again with the same arguments, for a plain-text input *)

MaxCalls == 2

InitPlainText == Init /\ get_mime_type(input_file) = "text/plain"

\* the caller keeps what convert returned and calls it again: the arguments
\* and the input file are the same, the locals are new, the files and the
\* temp names used so far are what the earlier call left
ConvertAgain ==
    /\ pc = "done"
    /\ Len(returned) < MaxCalls - 1
    /\ returned' = Append(returned, ret)
    /\ pc' = "start"
    /\ mime_type' = "unset"
    /\ return_txt' = FALSE
    /\ dest' = 0
    /\ ret' = NoRet
    /\ result' = NoResult
    /\ num_pages' = NoResult
    /\ pages_to_process' = <<>>
    /\ idx' = 0
    /\ tmp_file' = 0
    /\ tmp_file_txt' = 0
    /\ text' = <<>>
    /\ ocr_ret' = -1
    /\ UNCHANGED <<inputs, fs, ntmp, calls, removals>>

NextRepeated ==
    \/ Classify
    \/ PlainText
    \/ ConvertAgain

SpecRepeated == InitPlainText /\ [][NextRepeated]_vars

----------------------------------------------------------------------------
(* C19 *)

IsPdf == get_mime_type(input_file) = "application/pdf"

\* mdls was run (it exists on the host); it is then the first command
MdlsRan == calls # <<>> /\ calls[1].tool = "mdls"

NullMarker == <<"(null)">>

\* C19: when get_pages_in_pdf has returned, pdfinfo was run if mdls does
\* not exist on the host, and if mdls printed the null marker or printed
\* nothing; whenever pdfinfo was run, the result returned is pdfinfo's: its
\* exit status and, when that is 0, the page count it printed.
C19_FallbackToPdfinfo ==
    (IsPdf /\ pc = "counted") =>
        /\ ~MdlsRan => Last(calls).tool = "pdfinfo"
        /\ (MdlsRan /\ calls[1].out \in {NullMarker, <<>>}) =>
               Last(calls).tool = "pdfinfo"
        /\ Last(calls).tool = "pdfinfo" =>
               /\ num_pages.returncode = Last(calls).rc
               /\ Last(calls).rc = 0 =>
                      /\ num_pages.isint
                      /\ Printed(num_pages.n) = Last(calls).out

\* what holds: the cases of C19 other than mdls printing nothing
C19_ExceptEmptyOutput ==
    (IsPdf /\ pc = "counted") =>
        /\ ~MdlsRan => Last(calls).tool = "pdfinfo"
        /\ (MdlsRan /\ calls[1].out = NullMarker) =>
               Last(calls).tool = "pdfinfo"
        /\ Last(calls).tool = "pdfinfo" =>
               /\ num_pages.returncode = Last(calls).rc
               /\ Last(calls).rc = 0 =>
                      /\ num_pages.isint
                      /\ Printed(num_pages.n) = Last(calls).out

----------------------------------------------------------------------------
(* C20 *)

PageCounters == {"mdls", "pdfinfo", "djvused"}

\* ocr_file has returned from its image branch
ImageBranchTaken == IsImage /\ ocr_ret # -1

\* C20 as claimed: for an image input, ocr_file has made exactly one
\* command call, the OCR function on the input file with the destination as
\* its output file; no rasterizer and no page counter ran and no per-page
\* temp file was made.
C20_SingleOcrCall ==
    ImageBranchTaken =>
        /\ Len(calls) = 1
        /\ calls[1].tool = ocr_command
        /\ calls[1].args = <<InputFile, dest>>
        /\ PerPageTmp = {}

\* C20 amended: the same for an image input and a backend name that is an
\* OCR function; with any backend name, no rasterizer and no page counter
\* runs for an image and no per-page temp file is made.
C20_SingleOcrCallKnownBackend ==
    /\ (ImageBranchTaken /\ ocr_command \in OcrFunctions) =>
           /\ Len(calls) = 1
           /\ calls[1].tool = ocr_command
           /\ calls[1].args = <<InputFile, dest>>
           /\ dest \in DOMAIN fs => fs[dest] = calls[1].out
    /\ IsImage =>
           /\ \A j \in 1..Len(calls) :
                  calls[j].tool \notin Rasterizers \cup PageCounters
           /\ PerPageTmp = {}

\* an image was converted into a temp output with one call of the OCR
\* function, and its text was returned
C20_Witness ==
    /\ IsImage
    /\ Done
    /\ ret.kind = "text"
    /\ Len(calls) = 1
    /\ calls[1].tool = "tesseract_wrapper"
    /\ calls[1].args = <<InputFile, 1>>
    /\ ntmp = 1

----------------------------------------------------------------------------
(* C21 *)

\* C21: for an image input, when the one call of the OCR function ended
\* with a nonzero exit status, convert returns 1, whatever the function
\* wrote to the destination.
C21_ImageOcrFailureFails ==
    (/\ IsImage
     /\ Done
     /\ calls # <<>>
     /\ Last(calls).tool = ocr_command
     /\ Last(calls).rc # 0) =>
        Failed

----------------------------------------------------------------------------
(* C22 *)

\* C22: for a page spec of comma-separated integers and dash pairs, every
\* selected page number is at least 1.
C22_PositivePages ==
    (/\ Selected
     /\ ocr_pages \notin {None, <<>>}
     /\ WellFormed(ocr_pages)) =>
        \A k \in 1..Len(pages_to_process) : pages_to_process[k] >= 1

----------------------------------------------------------------------------
(* C23 *)

\* the per-page temp files that exist
ExistingPageTmp == DOMAIN fs \cap PerPageTmp

\* the per-page temp files not yet given to remove_file
Unreleased ==
    {f \in PerPageTmp : \A k \in 1..Len(removals) : removals[k].file # f}

\* the commands of the loop, in the order they were run
IsLoopCall(c) == c.occ > 0

LoopCalls == SelectSeq(calls, IsLoopCall)

\* C23 as claimed: at most two per-page temp files exist in any state.
C23_AtMostTwoTmpExist == Cardinality(ExistingPageTmp) <= 2

\* C23 amended: the loop is sequential.  The commands of the loop are run
\* in the order of the page occurrences, the rasterizer of an occurrence
\* before its OCR call; when the temp files of occurrence k+1 have just been
\* made, every temp file of the occurrences up to k has been given to
\* remove_file and every command of those occurrences has ended; so at most
\* two per-page temp files are not yet given to remove_file, and at most two
\* exist as long as no removal failed.
C23_Sequential ==
    LET loop_calls == LoopCalls
        unreleased == Unreleased
        existing == ExistingPageTmp
    IN
        /\ Cardinality(unreleased) <= 2
        /\ unreleased \subseteq {tmp_file, tmp_file_txt}
        /\ (\A k \in 1..Len(removals) : removals[k].ok) =>
               Cardinality(existing) <= 2
        /\ \A i, j \in 1..Len(loop_calls) :
               i < j =>
                   /\ loop_calls[i].occ <= loop_calls[j].occ
                   /\ loop_calls[i].occ = loop_calls[j].occ =>
                          /\ loop_calls[i].tool \in Rasterizers
                          /\ loop_calls[j].tool = ocr_command
        /\ pc = "rasterize" =>
               /\ unreleased = {tmp_file, tmp_file_txt}
               /\ tmp_file # tmp_file_txt
               /\ \A j \in 1..Len(loop_calls) : loop_calls[j].occ < idx
               /\ \A k \in 1..(idx - 1) :
                      \E j \in 1..Len(loop_calls) :
                          /\ loop_calls[j].occ = k
                          /\ loop_calls[j].tool \in Rasterizers

\* the temp files of the second occurrence have just been made: the first
\* occurrence was rasterized and OCRed and its two temp files are gone
C23_Witness ==
    /\ pc = "rasterize"
    /\ idx = 2
    /\ Len(LoopCalls) = 2
    /\ LoopCalls[1].tool \in Rasterizers
    /\ LoopCalls[2].tool = ocr_command
    /\ Len(removals) = 2
    /\ ExistingPageTmp = {tmp_file, tmp_file_txt}

----------------------------------------------------------------------------
(* C24 *)

AfterOcrFile == {"ocr_returned", "validated", "done"}

\* the content of the destination file changes in this step
DestinationChanges ==
    /\ dest \in DOMAIN fs
    /\ dest \in DOMAIN fs'
    /\ fs'[dest] # fs[dest]

\* C24: for a PDF or DjVu input, the content of the destination changes
\* only in the step that ends ocr_file after the loop; that step is taken
\* once, when the last element of the selected sequence has been processed
\* and every per-page temp file has been given to remove_file, and it makes
\* the accumulator the whole content of the destination, whether that was
\* an empty placeholder or an older file and whether or not the accumulator
\* is empty; nothing else is written.
C24_WrittenOnceAtEnd ==
    [][IsDocument =>
          /\ DestinationChanges => pc = "save_text"
          /\ pc = "save_text" =>
                 /\ idx = Len(pages_to_process)
                 /\ Unreleased = {}
                 /\ dest \in DOMAIN fs
                 /\ fs' = [k \in DOMAIN fs |-> IF k = dest THEN text ELSE fs[k]]
                 /\ pc' = "ocr_returned"
          /\ pc \in AfterOcrFile => pc' \in AfterOcrFile]_vars

\* the text of two pages has been written to the caller's file
C24_Witness ==
    /\ IsDocument
    /\ pc = "ocr_returned"
    /\ ocr_ret = 0
    /\ output_file # None
    /\ Len(pages_to_process) = 2
    /\ OccurrenceOk(1)
    /\ OccurrenceOk(2)
    /\ text # <<>>
    /\ fs[0] = text

\* the loop is over with an empty accumulator and the caller's file still
\* holds its older content, which the next step replaces
C24_WitnessOverwrite ==
    /\ IsDocument
    /\ pc = "save_text"
    /\ Len(pages_to_process) = 2
    /\ text = <<>>
    /\ dest = 0
    /\ 0 \in DOMAIN fs
    /\ fs[0] = <<"a", "a">>

----------------------------------------------------------------------------
(* C25 *)

\* this step is a call of remove_file in which os.remove failed (remove_file
\* returned 1)
RemovalFails ==
    /\ Len(removals') = Len(removals) + 1
    /\ ~Last(removals').ok

\* C25: a call of remove_file in which os.remove failed leaves the file
\* system as it was and goes on exactly as a successful one does: inside
\* the loop the next removal or the next page occurrence follows with the
\* accumulator and the loop index untouched and nothing returned or raised;
\* after a rejected conversion convert still returns 1; after a validated
\* one it still returns the text it had read.
C25_RemovalFailureIgnored ==
    [][RemovalFails =>
          /\ fs' = fs
          /\ text' = text
          /\ idx' = idx
          /\ pages_to_process' = pages_to_process
          /\ ret'.kind # "raise"
          /\ pc = "remove_tmp_file" =>
                 pc' = "remove_tmp_file_txt" /\ ret' = ret
          /\ pc = "remove_tmp_file_txt" =>
                 pc' = "loop" /\ ret' = ret
          /\ pc = "ocr_returned" =>
                 pc' = "done" /\ ret' = Status(1)
          /\ pc = "validated" =>
                 pc' = "done" /\ ret' = Text(NormalizedNewlines(fs[dest]))
          /\ pc \in {"remove_tmp_file", "remove_tmp_file_txt",
                     "ocr_returned", "validated"}]_vars

\* both removals of the first page failed, the second page was processed
\* all the same and convert returned the text of the two pages
C25_Witness ==
    /\ IsDocument
    /\ Done
    /\ ret.kind = "text"
    /\ Len(pages_to_process) = 2
    /\ OccurrenceOk(1)
    /\ OccurrenceOk(2)
    /\ ret.text = ConcatOk(2)
    /\ Len(removals) = 5
    /\ ~removals[1].ok
    /\ ~removals[2].ok
    /\ ~removals[5].ok

----------------------------------------------------------------------------
(* C26 *)

IsOcrCall(c) == c.occ > 0 /\ c.tool = ocr_command

\* the OCR calls of the loop, in the order they were made
OcrCalls == SelectSeq(calls, IsOcrCall)

\* the loop is between two page occurrences, or over
BetweenOccurrences == pc \in {"loop", "save_text"} \/ LoopCompleted

\* C26: for a PDF or DjVu input, the k-th rasterizer call is the one of the
\* k-th element of the selected sequence, so no element is rasterized
\* twice; every OCR call belongs to an element whose rasterizer call ended
\* with status 0, and no element has two; between two elements there are as
\* many rasterizer calls as elements processed and as many OCR calls as
\* rasterizer calls that ended with status 0; when the loop is over the
\* rasterizer has been called once for each element of the sequence.
C26_EachStepOnce ==
    LET raster_calls == RasterCalls
        ocr_calls == OcrCalls
    IN
        IsDocument =>
            /\ Len(raster_calls) <= Len(pages_to_process)
            /\ Len(ocr_calls) <= Len(raster_calls)
            /\ \A k \in 1..Len(raster_calls) :
                   /\ raster_calls[k].occ = k
                   /\ raster_calls[k].page = pages_to_process[k]
            /\ \A j \in 1..Len(ocr_calls) :
                   /\ ocr_calls[j].occ \in 1..Len(raster_calls)
                   /\ raster_calls[ocr_calls[j].occ].rc = 0
                   /\ \A i \in 1..(j - 1) : ocr_calls[i].occ < ocr_calls[j].occ
            /\ BetweenOccurrences =>
                   /\ Len(raster_calls) = idx
                   /\ Len(ocr_calls) =
                          Cardinality({k \in 1..Len(raster_calls) :
                                           raster_calls[k].rc = 0})
            /\ (pc = "save_text" \/ LoopCompleted) =>
                   Len(raster_calls) = Len(pages_to_process)

\* page 1 was selected twice: its first rasterization failed and was not
\* run again, its second one succeeded and was followed by one OCR call
C26_Witness ==
    /\ IsDocument
    /\ pc = "save_text"
    /\ pages_to_process = <<1, 1>>
    /\ Len(RasterCalls) = 2
    /\ RasterCalls[1].rc # 0
    /\ RasterCalls[2].rc = 0
    /\ Len(OcrCalls) = 1
    /\ OcrCalls[1].occ = 2

----------------------------------------------------------------------------
(* C27 *)

\* the steps of convert and ocr_file that come before the per-page loop or
\* end the call without it
BeforeLoop == {"start", "classified", "ocr_file", "get_pages_in_pdf",
               "pdfinfo", "get_pages_in_djvu", "counted", "select_pages",
               "ocr_returned"}

\* C27: with an output path and an input that is not plain text, no step
\* taken before the per-page loop changes the content of a file that
\* exists at that path, and if such a step makes the file, it makes it
\* empty; when ocr_file ends the conversion before the loop (the page count
\* failed, the backend name is unknown, the type is unsupported), the file
\* is there: with its older content, or as an empty placeholder.
C27_AbortKeepsOutputFile ==
    [][(/\ output_file # None
        /\ ~IsPlainText
        /\ idx = 0
        /\ pc \in BeforeLoop) =>
          /\ 0 \in DOMAIN fs => (0 \in DOMAIN fs' /\ fs'[0] = fs[0])
          /\ (0 \notin DOMAIN fs /\ 0 \in DOMAIN fs') => fs'[0] = <<>>
          /\ (/\ pc' = "done"
              /\ pc \in {"ocr_file", "counted", "select_pages", "ocr_returned"}) =>
                 0 \in DOMAIN fs']_vars

\* the page count of a PDF failed with status 1: convert returned 1 and
\* the caller's file holds what it held
C27_Witness ==
    /\ IsDocument
    /\ Failed
    /\ ocr_ret = 1
    /\ Last(calls).tool \in PageCounters
    /\ Last(calls).rc = 1
    /\ 0 \in DOMAIN fs
    /\ fs[0] = <<"a", "a">>

\* an unsupported type and a file that was not there: the empty placeholder
\* is left
C27_WitnessPlaceholder ==
    /\ get_mime_type(input_file) = "application/msword"
    /\ Failed
    /\ ocr_ret = 1
    /\ 0 \in DOMAIN fs
    /\ fs[0] = <<>>

----------------------------------------------------------------------------
(* C28 *)

\* C28 as claimed: a call without an output path that succeeds returns a
\* non-empty text.
C28_NonEmptyTextReturned ==
    (Succeeded /\ output_file = None) =>
        ret.kind = "text" /\ ret.text # <<>>

\* C28 amended: `assert text` never fails: when convert is about to read
\* the temp output back, the file holds an alphanumeric character; so a
\* call without an output path that succeeds returns a text and no status,
\* and for an input that is not plain text that text is not empty.
C28_AssertNeverFails ==
    /\ ret.exc # "AssertionError"
    /\ (pc = "validated" /\ return_txt) =>
           /\ dest \in DOMAIN fs
           /\ HasAlnum(NormalizedNewlines(fs[dest]))
    /\ (Succeeded /\ output_file = None) =>
           /\ ret.kind = "text"
           /\ ~IsPlainText => HasAlnum(ret.text)

\* a document was converted without an output path: the assert was passed
\* and the text returned
C28_Witness ==
    /\ IsDocument
    /\ Done
    /\ return_txt
    /\ ret.kind = "text"
    /\ HasAlnum(ret.text)
    /\ Len(removals) > 0
    /\ Last(removals).file = dest

----------------------------------------------------------------------------
(* C29 *)

IsCounterCall(c) == c.tool \in PageCounters

\* the page-count tools run so far, in order
CounterTools ==
    [k \in 1..Len(SelectSeq(calls, IsCounterCall)) |->
        SelectSeq(calls, IsCounterCall)[k].tool]

InGetPagesInPdf == pc \in {"get_pages_in_pdf", "pdfinfo"}

\* C29: for a PDF, get_pages_in_pdf runs mdls alone, pdfinfo alone, or mdls
\* and then pdfinfo, and nothing more: it calls itself only after mdls
\* printed the null marker, and it has returned as soon as pdfinfo has run
\* or mdls has printed anything else.
C29_AtMostTwoCounterCalls ==
    LET tools == CounterTools
    IN
        IsPdf =>
            /\ tools \in {<<>>, <<"mdls">>, <<"pdfinfo">>,
                                 <<"mdls", "pdfinfo">>}
            /\ pc = "get_pages_in_pdf" => tools = <<>>
            /\ pc = "pdfinfo" =>
                   tools = <<"mdls">> /\ calls[1].out = NullMarker
            /\ (tools # <<>> /\ Last(tools) = "pdfinfo") =>
                   ~InGetPagesInPdf
            /\ (tools = <<"mdls">> /\ calls[1].out # NullMarker) =>
                   ~InGetPagesInPdf

\* mdls printed the null marker, pdfinfo ran and get_pages_in_pdf returned
C29_Witness ==
    /\ IsPdf
    /\ pc = "counted"
    /\ CounterTools = <<"mdls", "pdfinfo">>
    /\ calls[1].out = NullMarker
    /\ num_pages.isint

----------------------------------------------------------------------------
(* C30 *)

\* Every step of convert is straight-line code or one blocking call of an
\* external tool; provided each tool returns, a step that can be taken is
\* taken.
SpecFair == Spec /\ WF_vars(Next)

\* C30: every call of convert eventually ends with the outcome Succeed (the
\* text, or status 0) or Fail (status 1).
C30_ReachesOutcome == <>(Succeeded \/ Failed)

\* what the code does guarantee: every call ends, by a return or by an
\* exception
C30_Terminates == <>Done

\* the loop never goes back to an earlier element of the selected sequence
C30_NeverRevisits ==
    [][(pc \in InLoop /\ pc' \in InLoop) => (idx' \in {idx, idx + 1})]_vars

====
